---- MODULE Spec2Model ----
(***************************************************************************)
(* A model of contextual_visualizer.py: the two form handlers, the grid    *)
(* planner create_ratio_visualization, the two drawing routines and the    *)
(* Control-s save handler.                                                 *)
(*                                                                         *)
(* Steps.  A handler runs to its end in one step, except where it waits    *)
(* inside an event loop of Tk: tk.messagebox.showwarning (lines 287 and    *)
(* 299) and tkfd.asksaveasfilename (line 218) wait for the dialog's        *)
(* answer, and root.update() (lines 229 and 232) dispatches the events     *)
(* that are pending.  Other handlers run there, to their end or to a wait  *)
(* of their own, and the call that waits goes on when every call started   *)
(* inside its wait has ended.                                              *)
(*                                                                         *)
(* Numbers.  A Python float is an IEEE 754 double and the model computes   *)
(* with doubles: float(), *, / and round() give the double, or the int,    *)
(* that CPython gives, bit for bit.  x ** 0.5 is the pow of the C library, *)
(* whose last bit differs between builds: it is one of the two doubles     *)
(* around the square root (see PowHalf), and a function that takes a root  *)
(* has a set of outcomes, one for each.  The significand of a double and   *)
(* the int that round() returns do not fit a 32-bit integer, so both are   *)
(* held as sequences of 15-bit limbs.  The ints the program draws with     *)
(* (ratios, grid sides, screen sides) are held as integers; IntOf is       *)
(* undefined for an int of 2^31 or more, and the inputs the                *)
(* specifications draw keep every ratio below MaxModelRatio.               *)
(***************************************************************************)
EXTENDS Integers, Sequences, FiniteSets, TLC

VARIABLES
    screen,     \* root.winfo_screenwidth() / root.winfo_screenheight()
    widgets,    \* the Tk widget tree: widget path name -> widget record
    windows,    \* the windows opened by the two drawing routines, in order:
                \* the Toplevel's path name and the PIL image drawn for it
    child_ids,  \* root._last_child_ids["toplevel"]: Toplevels named so far
    warnings,   \* tk.messagebox.showwarning calls, in order
    calls,      \* create_ratio_visualization calls, in order (history):
                \* ratio, subratio, title, and the place in windows of the
                \* window the call opened
    files,      \* the file system: sequence of canvas.image.save writes
    form,       \* the form: both Entry widgets, both units, the country
                \* box and the two checkbox variables
    waiting,    \* the calls of handlers that wait inside an event loop of
                \* Tk, innermost last: the warning of line 287 or 299, the
                \* save dialog of line 218, root.update() of line 229 or 232
    events,     \* the events the event loop has delivered to a handler
                \* so far (history)
    run         \* the handler that ended last, its inputs and how it ended

vars == <<screen, widgets, windows, child_ids, warnings, calls, files, form,
          waiting, events, run>>

-----------------------------------------------------------------------------
(* Bounds of the model *)

\* events the event loop delivers to a handler in a behaviour, each
\* starting a call
MaxEvents == 3
\* largest ratio handed directly to create_ratio_visualization in SpecGrid;
\* with 63 on a screen of 36 x 7 pixels the root is within one unit in the
\* last place of 3.5, and the grid is 3 or 4 cells high
MaxRatio == 63
\* largest area of SpecRatio
MaxArea == 12
\* largest grid side drawn directly in SpecDraw
MaxSide == 5

-----------------------------------------------------------------------------
(* Program constants *)

DAILY_BIRTHS == 385000
DAILY_DEATHS == 165000
\* world_area = 510072000 * 1000000
WORLD_AREA_KM2 == 510072000

-----------------------------------------------------------------------------
(* Integer helpers *)

\* the value v under a name for Body: an assignment, name = v, whose
\* right-hand side is worked out once however often the name is read
Bind(v, Body(_)) == Body(v)

Min(a, b) == IF a <= b THEN a ELSE b
Max(a, b) == IF a >= b THEN a ELSE b
Abs(n) == IF n < 0 THEN -n ELSE n

\* largest s with s*s <= n (bisection on lo..hi)
RECURSIVE SqrtSearch(_, _, _)
SqrtSearch(n, lo, hi) ==
    IF lo = hi THEN lo
    ELSE LET mid == (lo + hi + 1) \div 2
         IN  IF mid <= n \div mid THEN SqrtSearch(n, mid, hi)
             ELSE SqrtSearch(n, lo, mid - 1)

ISqrt(n) == IF n = 0 THEN 0 ELSE SqrtSearch(n, 1, Min(n, 46340))

\* 2^k for k in 0..30
Pow2(k) == 2 ^ k

\* number of binary digits of n, 0 <= n < 2^31 (0 for n = 0)
BitLength(n) ==
    IF n >= 2 ^ 30 THEN 31
    ELSE CHOOSE b \in 0..30 : n < 2 ^ b /\ (b = 0 \/ 2 ^ (b - 1) <= n)

\* number of decimal digits of n, 1 <= n < 2^31
Digits(n) ==
    IF n >= 10 ^ 9 THEN 10
    ELSE CHOOSE k \in 1..9 : n < 10 ^ k /\ (k = 1 \/ 10 ^ (k - 1) <= n)

-----------------------------------------------------------------------------
(* Natural numbers of any size.  Python's int and the 53-bit significands  *)
(* of its floats do not fit the integers of the model checker, so a        *)
(* natural number is a sequence of limbs in base 2^15, least significant   *)
(* limb first, without leading zero limbs; zero is the empty sequence.     *)

LimbBits == 15
LimbBase == 32768

Limb(a, i) == IF i <= Len(a) THEN a[i] ELSE 0

\* The recursions over the limbs of a number split their range in halves,
\* so that their depth is the logarithm of the number of limbs.

\* the largest i in lo..hi with a[i] # 0, or 0
RECURSIVE TopLimb(_, _, _)
TopLimb(a, lo, hi) ==
    IF lo > hi THEN 0
    ELSE IF lo = hi THEN (IF a[lo] # 0 THEN lo ELSE 0)
    ELSE Bind(TopLimb(a, (lo + hi) \div 2 + 1, hi), LAMBDA up :
             IF up # 0 THEN up ELSE TopLimb(a, lo, (lo + hi) \div 2))

\* a without its leading zero limbs
BTrim(a) == SubSeq(a, 1, TopLimb(a, 1, Len(a)))

\* <<limbs lo..hi of sum_i s[i] * LimbBase^(i-1), carry out>>, for the
\* carry c into limb lo
RECURSIVE Carry(_, _, _, _)
Carry(s, lo, hi, c) ==
    IF lo > hi THEN << <<>>, c >>
    ELSE IF lo = hi
    THEN << <<(s[lo] + c) % LimbBase>>, (s[lo] + c) \div LimbBase >>
    ELSE Bind(Carry(s, lo, (lo + hi) \div 2, c), LAMBDA left :
         Bind(Carry(s, (lo + hi) \div 2 + 1, hi, left[2]), LAMBDA right :
             <<left[1] \o right[1], right[2]>>))

\* the number sum_i s[i] * LimbBase^(i-1) for naturals s[i] < 2^30
BNat(s) ==
    Bind(Carry(s, 1, Len(s), 0), LAMBDA r :
        BTrim(r[1] \o <<r[2] % LimbBase, r[2] \div LimbBase>>))

\* the natural number n < 2^31
BFromInt(n) == BNat(<<n>>)

BBitLen(a) ==
    IF a = <<>> THEN 0 ELSE LimbBits * (Len(a) - 1) + BitLength(a[Len(a)])

\* the value of a, for a < 2^31
BToInt(a) == Limb(a, 1) + LimbBase * Limb(a, 2) + LimbBase * LimbBase * Limb(a, 3)

BFitsInt(a) == BBitLen(a) <= 31

BAdd(a, b) ==
    IF a = <<>> THEN b
    ELSE IF b = <<>> THEN a
    ELSE BNat([i \in 1..Max(Len(a), Len(b)) |-> Limb(a, i) + Limb(b, i)])

\* a * k for 0 <= k <= LimbBase
BMulSmall(a, k) ==
    IF a = <<>> \/ k = 0 THEN <<>> ELSE BNat([i \in 1..Len(a) |-> a[i] * k])

\* a * LimbBase^n
BShiftLimbs(a, n) == IF a = <<>> THEN <<>> ELSE [i \in 1..n |-> 0] \o a

\* a * sum_{j in lo..hi} b[j] * LimbBase^(j-1)
RECURSIVE BMulRange(_, _, _, _)
BMulRange(a, b, lo, hi) ==
    IF lo > hi THEN <<>>
    ELSE IF lo = hi THEN BShiftLimbs(BMulSmall(a, b[lo]), lo - 1)
    ELSE LET mid == (lo + hi) \div 2
         IN  BAdd(BMulRange(a, b, lo, mid), BMulRange(a, b, mid + 1, hi))

BMul(a, b) ==
    IF a = <<>> \/ b = <<>> THEN <<>> ELSE BMulRange(a, b, 1, Len(b))

\* <<limbs lo..hi of a - b, borrow out>>, for the borrow c into limb lo
RECURSIVE Borrow(_, _, _, _, _)
Borrow(a, b, lo, hi, c) ==
    IF lo > hi THEN << <<>>, c >>
    ELSE IF lo = hi
    THEN LET t == a[lo] - Limb(b, lo) - c
         IN  IF t < 0 THEN << <<t + LimbBase>>, 1 >> ELSE << <<t>>, 0 >>
    ELSE Bind(Borrow(a, b, lo, (lo + hi) \div 2, c), LAMBDA left :
         Bind(Borrow(a, b, (lo + hi) \div 2 + 1, hi, left[2]), LAMBDA right :
             <<left[1] \o right[1], right[2]>>))

\* a - b for a >= b
BSub(a, b) ==
    IF b = <<>> THEN a ELSE BTrim(Borrow(a, b, 1, Len(a), 0)[1])

\* -1, 0 or 1 as limbs lo..hi of a are below, equal to or above those of b
RECURSIVE CmpRange(_, _, _, _)
CmpRange(a, b, lo, hi) ==
    IF lo > hi THEN 0
    ELSE IF lo = hi
    THEN (IF a[lo] = b[lo] THEN 0 ELSE IF a[lo] < b[lo] THEN -1 ELSE 1)
    ELSE Bind(CmpRange(a, b, (lo + hi) \div 2 + 1, hi), LAMBDA up :
             IF up # 0 THEN up ELSE CmpRange(a, b, lo, (lo + hi) \div 2))

\* -1, 0 or 1 as a < b, a = b or a > b
BCmp(a, b) ==
    IF Len(a) # Len(b) THEN (IF Len(a) < Len(b) THEN -1 ELSE 1)
    ELSE CmpRange(a, b, 1, Len(a))

\* a * 2^k
BShl(a, k) ==
    IF a = <<>> \/ k = 0 THEN a
    ELSE BShiftLimbs(BMulSmall(a, Pow2(k % LimbBits)), k \div LimbBits)

\* a div 2^k
BShr(a, k) ==
    LET q == k \div LimbBits
        r == k % LimbBits
        p == Pow2(r)
        h == Pow2(LimbBits - r)
    IN  IF q >= Len(a) THEN <<>>
        ELSE BTrim([i \in 1..(Len(a) - q) |->
                       (a[q + i] \div p) + (Limb(a, q + i + 1) % p) * h])

\* bit k of a (bit 0 is the least significant)
BBit(a, k) == (Limb(a, k \div LimbBits + 1) \div Pow2(k % LimbBits)) % 2

\* a % 2^k = 0
BLowZero(a, k) ==
    /\ \A i \in 1..Min(k \div LimbBits, Len(a)) : a[i] = 0
    /\ Limb(a, k \div LimbBits + 1) % Pow2(k % LimbBits) = 0

BOdd(a) == Limb(a, 1) % 2 = 1

\* the largest digit q <= qhat with q * d <= r
RECURSIVE QFix(_, _, _)
QFix(r, d, qhat) ==
    IF BCmp(BMulSmall(d, qhat), r) > 0 THEN QFix(r, d, qhat - 1) ELSE qhat

\* long division by d, whose leading limb is at least LimbBase / 2: the
\* limbs hi, hi-1, .. lo of n are brought down in turn to the remainder so
\* far, st[2] < d, and the new digits put before the quotient st[1]
RECURSIVE DivRange(_, _, _, _, _)
DivRange(n, d, lo, hi, st) ==
    IF lo > hi THEN st
    ELSE IF lo = hi
    THEN Bind(BTrim(<<n[lo]>> \o st[2]), LAMBDA r1 :
         Bind(Limb(r1, Len(d) + 1) * LimbBase + Limb(r1, Len(d)), LAMBDA top :
         Bind(QFix(r1, d, Min(LimbBase - 1, top \div d[Len(d)])), LAMBDA qd :
             <<(<<qd>> \o st[1]), BSub(r1, BMulSmall(d, qd))>>)))
    ELSE Bind(DivRange(n, d, (lo + hi) \div 2 + 1, hi, st), LAMBDA up :
             IF Len(up[2]) <= Len(d)
             THEN DivRange(n, d, lo, (lo + hi) \div 2, up) ELSE up)

\* <<n div d, whether n % d # 0>> for d # 0
BDiv(n, d) ==
    IF n = <<>> THEN << <<>>, FALSE >>
    ELSE Bind(LimbBits - BitLength(d[Len(d)]), LAMBDA s :
         Bind(BShl(n, s), LAMBDA n1 :
         Bind(BShl(d, s), LAMBDA d1 :
             IF Len(n1) < Len(d1) THEN << <<>>, TRUE >>
             ELSE Bind(DivRange(n1, d1, 1, Len(n1), << <<>>, <<>> >>),
                       LAMBDA qr : <<BTrim(qr[1]), qr[2] # <<>> >>))))

\* Newton's iteration for the integer square root, from x >= sqrt(n)
RECURSIVE SqrtNewton(_, _)
SqrtNewton(n, x) ==
    Bind(BShr(BAdd(x, BDiv(n, x)[1]), 1), LAMBDA y :
        IF BCmp(y, x) >= 0 THEN x ELSE SqrtNewton(n, y))

\* the largest s with s * s <= n
BSqrt(n) ==
    IF n = <<>> THEN <<>>
    ELSE Bind(Max(0, BBitLen(n) - 16), LAMBDA s0 :
         Bind(s0 + (s0 % 2), LAMBDA sh :
             SqrtNewton(n, BShl(BFromInt(ISqrt(BToInt(BShr(n, sh))) + 1),
                                sh \div 2))))

\* 5^k, by squaring
RECURSIVE BPow5(_)
BPow5(k) ==
    IF k = 0 THEN <<1>>
    ELSE Bind(BPow5(k \div 2), LAMBDA h :
             BMulSmall(BMul(h, h), IF k % 2 = 1 THEN 5 ELSE 1))

-----------------------------------------------------------------------------
(* Floats.  A Python float is an IEEE 754 double: nan, +inf, -inf, or     *)
(* sign * m * 2^e with m a natural number below 2^53.  A double that is   *)
(* not zero has 2^52 <= m (normal) or e = -1074 (subnormal); zero has     *)
(* m = 0 and e = -1074.  Every operation rounds its exact result to the   *)
(* nearest double, ties to the even significand.                          *)

MantBits == 53
MinExp == -1074
MaxBits == 1024

NaN == [cls |-> "nan", sign |-> 1, m |-> <<>>, e |-> 0]
Inf(sign) == [cls |-> "inf", sign |-> sign, m |-> <<>>, e |-> 0]
Zero(sign) == [cls |-> "fin", sign |-> sign, m |-> <<>>, e |-> MinExp]

IsZero(x) == x.cls = "fin" /\ x.m = <<>>

\* sign * m * 2^e for m <= 2^53, with e >= MinExp as the rounding left it
Fin(sign, m, e) ==
    IF m = <<>> THEN Zero(sign)
    ELSE IF BBitLen(m) > MantBits
    THEN (IF e + 1 + MantBits > MaxBits THEN Inf(sign)
          ELSE [cls |-> "fin", sign |-> sign, m |-> BShr(m, 1), e |-> e + 1])
    ELSE IF e + BBitLen(m) > MaxBits THEN Inf(sign)
    ELSE [cls |-> "fin", sign |-> sign, m |-> m, e |-> e]

\* (n + f) / 2^sh rounded to the nearest integer, ties to the even one,
\* for sh >= 1, where 0 <= f < 1 and f > 0 exactly when sticky
RoundShr(n, sh, sticky) ==
    Bind(BShr(n, sh), LAMBDA q :
        IF /\ BBit(n, sh - 1) = 1
           /\ (sticky \/ ~BLowZero(n, sh - 1) \/ BOdd(q))
        THEN BAdd(q, <<1>>) ELSE q)

\* the double nearest to sign * (n + f) * 2^e, where 0 <= f < 1 and f > 0
\* exactly when sticky; n has at least 55 bits whenever sticky
Double(sign, n, e, sticky) ==
    IF n = <<>> THEN Zero(sign)
    ELSE Bind(Max(e + BBitLen(n) - MantBits, MinExp), LAMBDA t :
             IF t <= e THEN Fin(sign, BShl(n, e - t), t)
             ELSE Fin(sign, RoundShr(n, t - e, sticky), t))

\* float(n) for a Python int n the model holds as an integer
IntVal(n) == Double(IF n < 0 THEN -1 ELSE 1, BFromInt(Abs(n)), 0, FALSE)

\* the double nearest to the decimal literal [-]m e<e10>, as float() and
\* the compiler read it: m * 10^e10 = m * 5^e10 * 2^e10
Decimal(neg, m, e10) ==
    LET sign == IF neg THEN -1 ELSE 1
    IN  IF m = 0 THEN Zero(sign)
        ELSE IF Digits(m) + e10 > 310 THEN Inf(sign)
        ELSE IF Digits(m) + e10 < -330 THEN Zero(sign)
        ELSE IF e10 >= 0
        THEN Double(sign, BMul(BPow5(e10), BFromInt(m)), e10, FALSE)
        ELSE Bind(BPow5(-e10), LAMBDA d :
             Bind(Max(0, MantBits + 3 + BBitLen(d) - BitLength(m)), LAMBDA k :
             Bind(BDiv(BShl(BFromInt(m), k), d), LAMBDA qr :
                 Double(sign, qr[1], e10 - k, qr[2]))))

\* x * y
FloatMul(x, y) ==
    IF x.cls = "nan" \/ y.cls = "nan" THEN NaN
    ELSE IF x.cls = "inf" \/ y.cls = "inf"
    THEN (IF IsZero(x) \/ IsZero(y) THEN NaN ELSE Inf(x.sign * y.sign))
    ELSE Double(x.sign * y.sign, BMul(x.m, y.m), x.e + y.e, FALSE)

Raised(exc) == [exc |-> exc, v |-> NaN]
Value(v) == [exc |-> "", v |-> v]

\* x / y: Python raises ZeroDivisionError for y = 0.0, whatever x is
FloatDiv(x, y) ==
    IF IsZero(y) THEN Raised("ZeroDivisionError")
    ELSE IF x.cls = "nan" \/ y.cls = "nan" THEN Value(NaN)
    ELSE IF x.cls = "inf"
    THEN Value(IF y.cls = "inf" THEN NaN ELSE Inf(x.sign * y.sign))
    ELSE IF y.cls = "inf" \/ IsZero(x) THEN Value(Zero(x.sign * y.sign))
    ELSE Bind(Max(0, MantBits + 3 + BBitLen(y.m) - BBitLen(x.m)), LAMBDA k :
         Bind(BDiv(BShl(x.m, k), y.m), LAMBDA qr :
             Value(Double(x.sign * y.sign, qr[1], x.e - y.e - k, qr[2]))))

\* the outcomes of a step that has several: Body of each of them
Each(S, Body(_)) == UNION {Body(v) : v \in S}

\* x ** 0.5 for a float x is pow(x, 0.5) of the C library CPython is built
\* with.  pow is not sqrt: C leaves its accuracy to the library, and the
\* libraries keep the error below one unit in the last place without
\* rounding correctly, so that the result differs from one build to
\* another.  PowHalf(x) is the set of results a build can give: the root
\* itself when it is a double, else the double next below it and the
\* double next above it.  Both infinities give inf and both zeros 0.0;
\* Python gives a complex number for finite x < 0, which round() rejects
\* with TypeError.
PowHalf(x) ==
    IF x.cls = "nan" THEN {Value(NaN)}
    ELSE IF x.cls = "inf" THEN {Value(Inf(1))}
    ELSE IF IsZero(x) THEN {Value(Zero(1))}
    ELSE IF x.sign < 0 THEN {Raised("TypeError")}
    ELSE Bind(2 * MantBits - 1 - BBitLen(x.m), LAMBDA k0 :
         Bind(k0 + ((x.e - k0) % 2), LAMBDA k :
         Bind(BShl(x.m, k), LAMBDA n :
         Bind(BSqrt(n), LAMBDA s :
             IF BMul(s, s) = n
             THEN {Value(Double(1, s, (x.e - k) \div 2, FALSE))}
             ELSE {Value(Double(1, s, (x.e - k) \div 2, FALSE)),
                   Value(Double(1, BAdd(s, BFromInt(1)), (x.e - k) \div 2,
                                FALSE))}))))

\* -1, 0 or 1 as x < y, x = y or x > y, for finite x and y
FloatCmp(x, y) ==
    IF IsZero(x) /\ IsZero(y) THEN 0
    ELSE IF IsZero(x) THEN -y.sign
    ELSE IF IsZero(y) THEN x.sign
    ELSE IF x.sign # y.sign THEN x.sign
    ELSE LET e0 == Min(x.e, y.e)
         IN  x.sign * BCmp(BShl(x.m, x.e - e0), BShl(y.m, y.e - e0))

\* n > x for an int n and a float x, as Python compares them (exactly)
IntGtFloat(n, x) ==
    CASE x.cls = "nan" -> FALSE
      [] x.cls = "inf" -> x.sign < 0
      [] x.cls = "fin" ->
            FloatCmp([cls |-> "fin", sign |-> IF n < 0 THEN -1 ELSE 1,
                      m |-> BFromInt(Abs(n)), e |-> 0], x) > 0

\* x <= 0 as Python compares floats: every comparison with nan is False
FloatLeqZero(x) ==
    CASE x.cls = "nan" -> FALSE
      [] x.cls = "inf" -> x.sign < 0
      [] x.cls = "fin" -> IsZero(x) \/ x.sign < 0

\* A Python int that round() returns, or the exception round() raised:
\* sign and magnitude; v is its value when the magnitude is below 2^31
\* (fits), and 0 otherwise
RaisedInt(exc) ==
    [exc |-> exc, sign |-> 1, big |-> <<>>, fits |-> TRUE, v |-> 0]
IntResult(sign, big) ==
    [exc |-> "", sign |-> IF big = <<>> THEN 1 ELSE sign, big |-> big,
     fits |-> BFitsInt(big),
     v |-> IF BFitsInt(big) THEN sign * BToInt(big) ELSE 0]

\* the int r as an integer of the model; undefined for 2^31 or more
IntOf(r) == CASE r.exc = "" /\ r.fits -> r.v

\* round(x): the nearest integer, ties to even; ValueError on nan and
\* OverflowError on inf
PyRound(x) ==
    CASE x.cls = "nan" -> RaisedInt("ValueError")
      [] x.cls = "inf" -> RaisedInt("OverflowError")
      [] x.cls = "fin" ->
            IF x.e >= 0 THEN IntResult(x.sign, BShl(x.m, x.e))
            ELSE IntResult(x.sign, RoundShr(x.m, -x.e, FALSE))

\* round(r) for the outcome r of an operation that may have raised
PyRoundOf(r) == IF r.exc # "" THEN RaisedInt(r.exc) ELSE PyRound(r.v)

\* round(a / b)
PyRoundDiv(a, b) == PyRoundOf(FloatDiv(a, b))

-----------------------------------------------------------------------------
(* float() of what an Entry widget holds *)

\* What an Entry widget holds is modelled by its parse: a word float() does
\* not accept ("text"), one of the words nan, inf, -inf, or a decimal
\* literal [-]m e<e> with the digits m < 2^31
TextEntry(s) == [kind |-> "text", s |-> s, neg |-> FALSE, m |-> 0, e |-> 0]
WordEntry(s) == [kind |-> "word", s |-> s, neg |-> FALSE, m |-> 0, e |-> 0]
NumEntry(neg, m, e) == [kind |-> "num", s |-> "", neg |-> neg, m |-> m, e |-> e]

\* float(entry.get()): ValueError on text, else the nearest double (0.0
\* below half the smallest subnormal, inf from 1.8e308 on)
PyFloat(t) ==
    CASE t.kind = "text" -> Raised("ValueError")
      [] t.kind = "word" ->
            Value(CASE t.s = "nan" -> NaN
                    [] t.s = "inf" -> Inf(1)
                    [] t.s = "-inf" -> Inf(-1))
      [] t.kind = "num" -> Value(Decimal(t.neg, t.m, t.e))

-----------------------------------------------------------------------------
(* The country table *)

country_areas ==
    "Russia" :> 17098242 @@ "Canada" :> 9984670 @@ "China" :> 9706961 @@
    "United States" :> 9372610 @@ "Brazil" :> 8515767 @@
    "Australia" :> 7692024 @@ "India" :> 3287590 @@ "Argentina" :> 2780400 @@
    "Kazakhstan" :> 2724900 @@ "Algeria" :> 2381741 @@
    "DR Congo" :> 2344858 @@ "Greenland" :> 2166086 @@
    "Saudi Arabia" :> 2149690 @@ "Mexico" :> 1964375 @@
    "Indonesia" :> 1904569 @@ "Sudan" :> 1886068 @@ "Libya" :> 1759540 @@
    "Iran" :> 1648195 @@ "Mongolia" :> 1564110 @@ "Peru" :> 1285216 @@
    "Chad" :> 1284000 @@ "Niger" :> 1267000 @@ "Angola" :> 1246700 @@
    "Mali" :> 1240192 @@ "South Africa" :> 1221037 @@
    "Colombia" :> 1141748 @@ "Ethiopia" :> 1104300 @@ "Bolivia" :> 1098581 @@
    "Mauritania" :> 1030700 @@ "Egypt" :> 1002450 @@ "Tanzania" :> 945087 @@
    "Nigeria" :> 923768 @@ "Venezuela" :> 916445 @@ "Pakistan" :> 881912 @@
    "Namibia" :> 825615 @@ "Mozambique" :> 801590 @@ "Turkey" :> 783562 @@
    "Chile" :> 756102 @@ "Zambia" :> 752612 @@ "Myanmar" :> 676578 @@
    "Afghanistan" :> 652230 @@ "Somalia" :> 637657 @@
    "Central African Republic" :> 622984 @@ "South Sudan" :> 619745 @@
    "Ukraine" :> 603500 @@ "Madagascar" :> 587041 @@ "Botswana" :> 582000 @@
    "Kenya" :> 580367 @@ "France" :> 551695 @@ "Yemen" :> 527968 @@
    "Thailand" :> 513120 @@ "Spain" :> 505992 @@ "Turkmenistan" :> 488100 @@
    "Cameroon" :> 475442 @@ "Papua New Guinea" :> 462840 @@
    "Sweden" :> 450295 @@ "Uzbekistan" :> 447400 @@ "Morocco" :> 446550 @@
    "Iraq" :> 438317 @@ "Paraguay" :> 406752 @@ "Zimbabwe" :> 390757 @@
    "Japan" :> 377930 @@ "Germany" :> 357114 @@ "Philippines" :> 342353 @@
    "Congo" :> 342000 @@ "Finland" :> 338424 @@ "Vietnam" :> 331212 @@
    "Malaysia" :> 330803 @@ "Norway" :> 323802 @@
    "Cote d'Ivoire" :> 322463 @@ "Poland" :> 312679 @@ "Oman" :> 309500 @@
    "Italy" :> 301336 @@ "Ecuador" :> 276841 @@ "Burkina Faso" :> 272967 @@
    "New Zealand" :> 270467 @@ "Gabon" :> 267668 @@
    "Western Sahara" :> 266000 @@ "Guinea" :> 245857 @@
    "United Kingdom" :> 242900 @@ "Uganda" :> 241550 @@ "Ghana" :> 238533 @@
    "Romania" :> 238391 @@ "Laos" :> 236800 @@ "Guyana" :> 214969 @@
    "Belarus" :> 207600 @@ "Kyrgyzstan" :> 199951 @@ "Senegal" :> 196722 @@
    "Syria" :> 185180 @@ "Cambodia" :> 181035 @@ "Uruguay" :> 181034 @@
    "Suriname" :> 163820 @@ "Tunisia" :> 163610 @@ "Bangladesh" :> 147570 @@
    "Nepal" :> 147181 @@ "Tajikistan" :> 143100 @@ "Greece" :> 131990 @@
    "Nicaragua" :> 130373 @@ "North Korea" :> 120538 @@ "Malawi" :> 118484 @@
    "Eritrea" :> 117600 @@ "Benin" :> 112622 @@ "Honduras" :> 112492 @@
    "Liberia" :> 111369 @@ "Bulgaria" :> 110879 @@ "Cuba" :> 109884 @@
    "Guatemala" :> 108889 @@ "Iceland" :> 103000 @@
    "South Korea" :> 100210 @@ "Hungary" :> 93028 @@ "Portugal" :> 92090 @@
    "Jordan" :> 89342 @@ "Serbia" :> 88361 @@ "Azerbaijan" :> 86600 @@
    "Austria" :> 83871 @@ "United Arab Emirates" :> 83600 @@
    "French Guiana" :> 83534 @@ "Czechia" :> 78865 @@ "Panama" :> 75417 @@
    "Sierra Leone" :> 71740 @@ "Ireland" :> 70273 @@ "Georgia" :> 69700 @@
    "Sri Lanka" :> 65610 @@ "Lithuania" :> 65300 @@ "Latvia" :> 64559 @@
    "Togo" :> 56785 @@ "Croatia" :> 56594 @@
    "Bosnia and Herzegovina" :> 51209 @@ "Costa Rica" :> 51100 @@
    "Slovakia" :> 49037 @@ "Dominican Republic" :> 48671 @@
    "Estonia" :> 45227 @@ "Denmark" :> 43094 @@ "Netherlands" :> 41850 @@
    "Switzerland" :> 41284 @@ "Bhutan" :> 38394 @@ "Taiwan" :> 36193 @@
    "Guinea-Bissau" :> 36125 @@ "Moldova" :> 33846 @@ "Belgium" :> 30528 @@
    "Lesotho" :> 30355 @@ "Armenia" :> 29743 @@ "Solomon Islands" :> 28896 @@
    "Albania" :> 28748 @@ "Equatorial Guinea" :> 28051 @@
    "Burundi" :> 27834 @@ "Haiti" :> 27750 @@ "Rwanda" :> 26338 @@
    "Republic of North Macedonia" :> 25713 @@ "Djibouti" :> 23200 @@
    "Belize" :> 22966 @@ "El Salvador" :> 21041 @@ "Israel" :> 20770 @@
    "Slovenia" :> 20273 @@ "New Caledonia" :> 18575 @@ "Fiji" :> 18272 @@
    "Kuwait" :> 17818 @@ "Eswatini" :> 17364 @@ "Timor-Leste" :> 14874 @@
    "Bahamas" :> 13943 @@ "Montenegro" :> 13812 @@ "Vanuatu" :> 12189 @@
    "Falkland Islands" :> 12173 @@ "Qatar" :> 11586 @@ "Jamaica" :> 10991 @@
    "Gambia" :> 10689 @@ "Lebanon" :> 10452 @@ "Cyprus" :> 9251 @@
    "Puerto Rico" :> 8870 @@ "State of Palestine" :> 6220 @@
    "Brunei Darussalam" :> 5765 @@ "Trinidad and Tobago" :> 5130 @@
    "French Polynesia" :> 4167 @@ "Cabo Verde" :> 4033 @@ "Samoa" :> 2842 @@
    "Luxembourg" :> 2586 @@ "Reunion" :> 2511 @@ "Mauritius" :> 2040 @@
    "Comoros" :> 1862 @@ "Guadeloupe" :> 1628 @@ "Faeroe Islands" :> 1393 @@
    "Martinique" :> 1128 @@ "Sao Tome and Principe" :> 964 @@
    "Turks and Caicos Islands" :> 948 @@ "Kiribati" :> 811 @@
    "Bahrain" :> 765 @@ "Dominica" :> 751 @@ "Tonga" :> 747 @@
    "Singapore" :> 710 @@ "Micronesia" :> 702 @@ "Saint Lucia" :> 616 @@
    "Isle of Man" :> 572 @@ "Guam" :> 549 @@ "Andorra" :> 468 @@
    "Northern Mariana Islands" :> 464 @@ "Palau" :> 459 @@
    "Seychelles" :> 452 @@ "Curacao" :> 444 @@
    "Antigua and Barbuda" :> 442 @@ "Barbados" :> 430 @@
    "Saint Helena" :> 394 @@ "Saint Vincent and the Grenadines" :> 389 @@
    "Mayotte" :> 374 @@ "United States Virgin Islands" :> 347 @@
    "Grenada" :> 344 @@ "Caribbean Netherlands" :> 328 @@ "Malta" :> 316 @@
    "Maldives" :> 300 @@ "Cayman Islands" :> 264 @@
    "Saint Kitts and Nevis" :> 261 @@ "Niue" :> 260 @@
    "Saint Pierre and Miquelon" :> 242 @@ "Cook Islands" :> 236 @@
    "American Samoa" :> 199 @@ "Marshall Islands" :> 181 @@ "Aruba" :> 180 @@
    "Liechtenstein" :> 160 @@ "British Virgin Islands" :> 151 @@
    "Wallis and Futuna Islands" :> 142 @@ "Montserrat" :> 102 @@
    "Anguilla" :> 91 @@ "San Marino" :> 61 @@ "Bermuda" :> 54 @@
    "Saint Martin" :> 53 @@ "Sint Maarten" :> 34 @@ "Tuvalu" :> 26 @@
    "Nauru" :> 21 @@ "Saint Barthelemy" :> 21 @@ "Tokelau" :> 12 @@
    "Gibraltar" :> 6 @@ "Monaco" :> 2

\* countries_list = sorted(country_areas.keys()), as a set
countries_list == DOMAIN country_areas

-----------------------------------------------------------------------------
(* Colours, as the RGB values Tk 8.6 and PIL give the names used *)

Rgb(c) ==
    CASE c = "#ffffff" -> <<255, 255, 255>>
      [] c = "white"   -> <<255, 255, 255>>
      [] c = "#000000" -> <<0, 0, 0>>
      [] c = "black"   -> <<0, 0, 0>>
      [] c = "green"   -> <<0, 128, 0>>
      [] c = "red"     -> <<255, 0, 0>>
      [] c = "orange"  -> <<255, 165, 0>>
      [] c = "#dddddd" -> <<221, 221, 221>>

-----------------------------------------------------------------------------
(* _get_grid_pattern_string and tk.PhotoImage *)

\* the rows of the pattern string, each the colours between one pair of
\* braces: for i in range(2), i = 0 adds white white to the even row and
\* color color to the odd row, i = 1 the other way round
even_row_str(color) == <<"#ffffff", "#ffffff", color, color>>
odd_row_str(color) == <<color, color, "#ffffff", "#ffffff">>

GridPatternString(color) ==
    <<even_row_str(color), even_row_str(color),
      odd_row_str(color), odd_row_str(color)>>

PhotoImage(width, height) == [width |-> width, height |-> height, puts |-> <<>>]

\* img.put(data, to=(x1, y1, x2, y2)): the data block tiles the region
PhotoPut(img, data, to) ==
    [img EXCEPT !.puts = Append(@, [data |-> data, to |-> to])]

PutCovers(put, px, py) ==
    /\ put.to[1] <= px /\ px < put.to[3]
    /\ put.to[2] <= py /\ py < put.to[4]

PutColour(put, px, py) ==
    put.data[((py - put.to[2]) % Len(put.data)) + 1]
            [((px - put.to[1]) % Len(put.data[1])) + 1]

\* the colour of pixel (px, py) of a PhotoImage, "" where nothing was put
PhotoPixel(img, px, py) ==
    LET hits == {i \in 1..Len(img.puts) : PutCovers(img.puts[i], px, py)}
    IN  IF px < 0 \/ py < 0 \/ px >= img.width \/ py >= img.height
           \/ hits = {}
        THEN ""
        ELSE LET last == CHOOSE i \in hits : \A j \in hits : j <= i
             IN  PutColour(img.puts[last], px, py)

-----------------------------------------------------------------------------
(* PIL: Image.frombytes, Image.new and ImageDraw *)

\* pixel i of even_row_bytes and of odd_row_bytes (lines 107-109)
even_row_bytes(i) == IF i % 2 = 1 THEN <<0, 0, 0>> ELSE <<255, 255, 255>>
odd_row_bytes(i) == IF i % 2 = 1 THEN <<255, 255, 255>> ELSE <<0, 0, 0>>

\* pixel k of pixel_bytes = (even_row_bytes + odd_row_bytes) * ((h+1)//2)
pixel_bytes(width, k) ==
    LET j == k % (2 * width)
    IN  IF j < width THEN even_row_bytes(j) ELSE odd_row_bytes(j - width)

\* Image.frombytes("RGB", (width, height), pixel_bytes): rows of width pixels
ImageFromBytes(width, height) ==
    [size |-> <<width, height>>, source |-> "frombytes", draws |-> <<>>]

\* Image.new("RGB", size, "white")
ImageNew(width, height) ==
    [size |-> <<width, height>>, source |-> "white", draws |-> <<>>]

\* for i in range(lo, hi, step): draw.line([i, a, i, b], fill) ("v") or
\* draw.line([a, i, b, i], fill) ("h"); a line includes both its end points
DrawLines(image, dir, lo, hi, step, a, b, fill) ==
    [image EXCEPT !.draws = Append(@,
        [op |-> "lines", dir |-> dir, lo |-> lo, hi |-> hi, step |-> step,
         a |-> a, b |-> b, fill |-> fill])]

\* draw.line([x0, y0, x1, y1], fill) for a vertical line
DrawLine(image, x0, y0, x1, y1, fill) ==
    DrawLines(image, "v", x0, x0 + 1, 1, y0, y1, fill)

\* draw.ellipse(box, outline=..., fill=...) for the box <<x0, y0, x1, y1>>;
\* fill is "" for None
DrawEllipse(image, box, outline, fill) ==
    [image EXCEPT !.draws = Append(@,
        [op |-> "ellipse", dir |-> "", lo |-> box[1], hi |-> box[3], step |-> 1,
         a |-> box[2], b |-> box[4], fill |-> fill, outline |-> outline])]

InRange(i, lo, hi, step) == lo <= i /\ i < hi /\ (i - lo) % step = 0

\* The ellipses and ovals of the program are circles: their boxes are
\* squares.  Pixel (x, y) lies in the circle inscribed in the box
\* <<x0, y0, x1, y1>>, widened by half a pixel (d = 1) or narrowed by half a
\* pixel (d = -1), when it is at most (x1 - x0 + d) / 2 from the centre of
\* the box.  The outline, one pixel wide, is the ring between the two; on
\* single pixels at the edge the rasterisers of PIL and of Tk may differ
\* from this.
InCircle(box, x, y, d) ==
    LET dx   == 2 * x - box[1] - box[3]
        dy   == 2 * y - box[2] - box[4]
        diam == box[3] - box[1] + d
    IN  diam >= 0 /\ dx * dx + dy * dy <= diam * diam

EllipseBox(d) == <<d.lo, d.a, d.hi, d.b>>

\* whether the drawing operation d paints pixel (x, y)
DrawCovers(d, x, y) ==
    CASE d.op = "lines" ->
            IF d.dir = "v"
            THEN InRange(x, d.lo, d.hi, d.step) /\ d.a <= y /\ y <= d.b
            ELSE InRange(y, d.lo, d.hi, d.step) /\ d.a <= x /\ x <= d.b
      [] d.op = "ellipse" ->
            /\ InCircle(EllipseBox(d), x, y, 1)
            /\ d.fill # "" \/ ~InCircle(EllipseBox(d), x, y, -1)

\* the colour the drawing operation d paints pixel (x, y) with
DrawColour(d, x, y) ==
    IF d.op = "ellipse" /\ ~InCircle(EllipseBox(d), x, y, -1)
    THEN d.outline ELSE d.fill

\* the RGB value of pixel (x, y) of an image: what the last drawing
\* operation that covers it painted, else what the image was made with
PilPixel(image, x, y) ==
    LET hits == {i \in 1..Len(image.draws) : DrawCovers(image.draws[i], x, y)}
    IN  IF hits = {}
        THEN (IF image.source = "frombytes"
              THEN pixel_bytes(image.size[1], y * image.size[1] + x)
              ELSE Rgb(image.source))
        ELSE LET last == CHOOSE i \in hits : \A j \in hits : j <= i
             IN  Rgb(DrawColour(image.draws[last], x, y))

-----------------------------------------------------------------------------
(* What a tk.Canvas shows *)

ItemCovers(canvas, item, cx, cy) ==
    CASE item.type = "rectangle" ->
            /\ item.coords[1] <= cx /\ cx <= item.coords[3]
            /\ item.coords[2] <= cy /\ cy <= item.coords[4]
      [] item.type = "image" ->
            PhotoPixel(canvas.img, cx - item.coords[1], cy - item.coords[2]) # ""
      [] item.type = "oval" ->
            /\ InCircle(item.coords, cx, cy, 1)
            /\ item.fill # "" \/ ~InCircle(item.coords, cx, cy, -1)

ItemColour(canvas, item, cx, cy) ==
    CASE item.type = "rectangle" -> Rgb(item.fill)
      [] item.type = "image" ->
            Rgb(PhotoPixel(canvas.img, cx - item.coords[1], cy - item.coords[2]))
      [] item.type = "oval" ->
            Rgb(IF InCircle(item.coords, cx, cy, -1)
                THEN item.fill ELSE item.outline)

\* the RGB value shown at canvas coordinates (cx, cy): the topmost item
\* there (items are stacked in creation order), else the background (a
\* canvas whose background the program does not set shows Tk's default,
\* which the model leaves undefined)
DisplayedPixel(canvas, cx, cy) ==
    LET hits == {i \in 1..Len(canvas.items) :
                    ItemCovers(canvas, canvas.items[i], cx, cy)}
    IN  IF hits = {} THEN Rgb(canvas.background)
        ELSE LET top == CHOOSE i \in hits : \A j \in hits : j <= i
             IN  ItemColour(canvas, canvas.items[top], cx, cy)

-----------------------------------------------------------------------------
(* The widget tree.  tkinter names the n-th Toplevel of root "!toplevel"   *)
(* (n = 1) or "!toplevel<n>", and a widget's path is its parent's path,    *)
(* a dot, and its name.                                                     *)

ToplevelPath(n) ==
    IF n = 1 THEN ".!toplevel" ELSE ".!toplevel" \o ToString(n)

\* "{0:,}".format(n) for n >= 0
Pad3(n) ==
    IF n < 10 THEN "00" \o ToString(n)
    ELSE IF n < 100 THEN "0" \o ToString(n) ELSE ToString(n)

RECURSIVE Commas(_)
Commas(n) ==
    IF n < 1000 THEN ToString(n)
    ELSE Commas(n \div 1000) \o "," \o Pad3(n % 1000)

\* a world is the part of the state window creation updates
World(ws, wins, ids, cs) ==
    [widgets |-> ws, windows |-> wins, child_ids |-> ids, calls |-> cs]

\* the two ttk.Scrollbar children of cwin (lines 73-78 and 172-177)
Scrollbars(cwin) ==
    (cwin \o ".!scrollbar" :> [class |-> "Scrollbar", orient |-> "vertical"]) @@
    (cwin \o ".!scrollbar2" :> [class |-> "Scrollbar", orient |-> "horizontal"])

\* canvas.img after lines 98-101 and 117
GridPhotoImage(width, height, inset_width) ==
    LET img == PhotoPut(PhotoImage(width * 2, height * 2),
                        GridPatternString("#000000"),
                        <<0, 0, width * 2, height * 2>>)
    IN  IF inset_width # 0
        THEN PhotoPut(img, GridPatternString("green"),
                      <<0, 0, inset_width * 2, inset_width * 2>>)
        ELSE img

\* canvas.image after lines 105-123
GridPilImage(width, height, inset_width) ==
    LET pil == ImageFromBytes(width, height)
        ins == IF inset_width # 0
               THEN DrawLines(DrawLines(pil, "v", 0, inset_width, 2,
                                        0, inset_width, "green"),
                              "h", 0, inset_width, 2, 0, inset_width, "green")
               ELSE pil
    IN  DrawLine(ins, 1, 1, 1, 1, "red")

\* 0.86 * root.winfo_screenwidth() and the like: the float 0.<percent>
\* times the int side
ScreenFraction(percent, side) ==
    FloatMul(Decimal(FALSE, percent, -2), IntVal(side))

\* draw_canvas_grid(width, height, use_scrollers, wintitle, inset_width,
\* title_count); title_count is <<>> for None.  An option of C is kept
\* with the Python type of the value the program gave it.
DrawCanvasGrid(w, scr, width, height, use_scrollers, wintitle, inset_width, title_count) ==
    LET cwin  == ToplevelPath(w.child_ids + 1)
        count == IF title_count = <<>> \/ title_count = <<"">>
                 THEN " - 1 in " \o Commas(width * height)
                 ELSE title_count[1]
        top   == [class |-> "Toplevel",
                  title |-> wintitle \o count,
                  bg |-> "#dddddd",
                  resizable |-> use_scrollers,
                  geometry |-> IF use_scrollers THEN "+5+5" ELSE "",
                  bind |-> {<<"<Control-s>", "save_canvas_to_png">>}]
        C     == [class |-> "Canvas", bg |-> "black", highlightthickness |-> 0,
                  width |-> IF use_scrollers
                            THEN <<"float", ScreenFraction(86, scr.width)>>
                            ELSE <<"int", width * 2>>,
                  height |-> IF use_scrollers
                             THEN <<"float", ScreenFraction(86, scr.height)>>
                             ELSE <<"int", height * 2>>,
                  scrollregion |-> IF use_scrollers
                                   THEN <<0, 0, width * 2, height * 2>>
                                   ELSE <<>>,
                  window |-> cwin \o ".c.f"]
        canvas == [class |-> "Canvas", background |-> "#000000",
                   width |-> width * 2, height |-> height * 2,
                   img |-> GridPhotoImage(width, height, inset_width),
                   items |-> << [type |-> "image", coords |-> <<2, 2>>,
                                 fill |-> "", outline |-> ""],
                                [type |-> "rectangle", coords |-> <<2, 2, 3, 3>>,
                                 fill |-> "red", outline |-> "red"] >>,
                   image |-> GridPilImage(width, height, inset_width)]
    IN  [w EXCEPT
           !.widgets = (cwin :> top) @@ (cwin \o ".c" :> C) @@
                       (cwin \o ".c.f" :> [class |-> "Frame"]) @@
                       (cwin \o ".c.f.canvas" :> canvas) @@
                       (IF use_scrollers THEN Scrollbars(cwin) @@ w.widgets
                        ELSE w.widgets),
           !.windows = Append(@, [path |-> cwin, image |-> canvas.image]),
           !.child_ids = @ + 1]

\* S_TO_EO_DIAMETER_RATIO = 211.60
S_TO_EO_DIAMETER_RATIO == Decimal(FALSE, 21160, -2)

\* orbital_diameter = round(8 * S_TO_EO_DIAMETER_RATIO)
orbital_diameter == IntOf(PyRound(FloatMul(IntVal(8), S_TO_EO_DIAMETER_RATIO)))
\* orbital_radius = round(orbital_diameter / 2)
orbital_radius ==
    Bind(orbital_diameter, LAMBDA od : IntOf(PyRoundDiv(IntVal(od), IntVal(2))))

\* the widgets and the image of draw_earth_sun_diagram() for the window
\* cwin; wide and scroll are the conditions of lines 178 and 171
EarthSunWindow(w, scr, cwin, od, orad, wide, scroll, image) ==
    [w EXCEPT
       !.widgets =
           (cwin :> [class |-> "Toplevel",
                     title |-> "The Earth is an invisible speck in space, with a diameter < 1% of the Sun's",
                     bg |-> "",
                     resizable |-> FALSE,
                     geometry |-> IF scroll THEN "+5+5" ELSE "",
                     bind |-> {<<"<Control-s>", "save_canvas_to_png">>}]) @@
           (cwin \o ".c" :>
                    [class |-> "Canvas", bg |-> "",
                     highlightthickness |-> -1,
                     width |-> IF wide
                               THEN <<"float", ScreenFraction(96, scr.width)>>
                               ELSE <<"int", od + 8>>,
                     height |-> IF scroll
                                THEN <<"float", ScreenFraction(86, scr.height)>>
                                ELSE <<"int", od + 8>>,
                     scrollregion |-> IF scroll
                                      THEN <<0, 0, od + 8, od + 8>>
                                      ELSE <<>>,
                     window |-> cwin \o ".c.f"]) @@
           (cwin \o ".c.f" :> [class |-> "Frame"]) @@
           (cwin \o ".c.f.canvas" :>
                    [class |-> "Canvas", background |-> "",
                     width |-> od + 8, height |-> od + 8,
                     img |-> PhotoImage(0, 0),
                     items |-> << [type |-> "oval",
                                   coords |-> <<4, 4, 4 + od, 4 + od>>,
                                   fill |-> "", outline |-> "black"],
                                  [type |-> "oval",
                                   coords |-> <<orad, orad, orad + 8, orad + 8>>,
                                   fill |-> "red", outline |-> "orange"] >>,
                     image |-> image]) @@
           (IF scroll THEN Scrollbars(cwin) @@ w.widgets ELSE w.widgets),
       !.windows = Append(@, [path |-> cwin, image |-> image]),
       !.child_ids = @ + 1]

\* draw_earth_sun_diagram()
DrawEarthSunDiagram(w, scr) ==
    Bind(orbital_diameter, LAMBDA od :
    Bind(orbital_radius, LAMBDA orad :
    Bind(IntGtFloat(od, ScreenFraction(96, scr.width)), LAMBDA wide :
    Bind(IntGtFloat(od, ScreenFraction(86, scr.height)), LAMBDA high :
        EarthSunWindow(w, scr, ToplevelPath(w.child_ids + 1), od, orad,
            wide, high \/ wide,
            DrawEllipse(
                DrawEllipse(ImageNew(od + 8, od + 8),
                            <<4, 4, 4 + od, 4 + od>>, "black", ""),
                <<orad, orad, orad + 8, orad + 8>>, "orange", "red"))))))
-----------------------------------------------------------------------------
(* create_ratio_visualization *)

\* the result of a function of the program: the world it leaves and the
\* exception, if any, that ended it ("" for none).  A function that takes
\* x ** 0.5 has the set of the results it has with each value of PowHalf.
Done(w) == [world |-> w, raised |-> ""]
Abort(w, exc) == [world |-> w, raised |-> exc]

\* aspect_ratio = screen_width / screen_height
AspectRatio(scr) == FloatDiv(IntVal(scr.width), IntVal(scr.height))

\* a mutant: the ratio multiplied by the aspect ratio, not divided by it
GridHeightTimesAspect(ratio, scr) ==
    Bind(AspectRatio(scr), LAMBDA aspect_ratio :
        IF aspect_ratio.exc # "" THEN {RaisedInt(aspect_ratio.exc)}
        ELSE {PyRoundOf(root) :
                 root \in PowHalf(FloatMul(IntVal(ratio), aspect_ratio.v))})

\* gridheight = round((ratio / aspect_ratio) ** 0.5): the values it may
\* have, which are two when the root is within one unit in the last place
\* of a half-integer that round() takes the other way
GridHeight(ratio, scr) ==
    Bind(AspectRatio(scr), LAMBDA aspect_ratio :
        IF aspect_ratio.exc # "" THEN {RaisedInt(aspect_ratio.exc)}
        ELSE Bind(FloatDiv(IntVal(ratio), aspect_ratio.v), LAMBDA quotient :
                 IF quotient.exc # "" THEN {RaisedInt(quotient.exc)}
                 ELSE {PyRoundOf(root) : root \in PowHalf(quotient.v)}))

\* gridwidth = round(aspect_ratio * gridheight)
GridWidth(gridheight, scr) ==
    Bind(AspectRatio(scr), LAMBDA aspect_ratio :
        IF aspect_ratio.exc # "" THEN RaisedInt(aspect_ratio.exc)
        ELSE PyRound(FloatMul(aspect_ratio.v, IntVal(gridheight))))

\* a mutant: scrollbars only above 0.55 of the screen's height
UseScrollersLoose(gridheight, scr) ==
    IntGtFloat(gridheight, ScreenFraction(55, scr.height))

\* a mutant: the grid height compared with the screen's width
UseScrollersWidth(gridheight, scr) ==
    IntGtFloat(gridheight, ScreenFraction(45, scr.width))

\* use_scrollers = True if gridheight > 0.45 * screen_height else False
UseScrollers(gridheight, scr) ==
    IntGtFloat(gridheight, ScreenFraction(45, scr.height))

\* inset_width = round(subratio ** 0.5) if subratio else 0; <<>> is None.
\* The values it may have; the root of an int below 2^31 is further than
\* one unit in the last place from every half-integer, so that there is
\* one
InsetWidth(subratio) ==
    IF subratio = <<>> \/ subratio[1] = 0 THEN {IntResult(1, <<>>)}
    ELSE {PyRoundOf(root) : root \in PowHalf(IntVal(subratio[1]))}

\* create_ratio_visualization(ratio, wintitle, subratio, title_count): the
\* outcomes it may have.  The call is put on record with the place of the
\* window it opens, 0 if an exception ends it before it opens one
CreateRatioVisualization(w, scr, ratio, wintitle, subratio, title_count) ==
    LET call   == [ratio |-> ratio, subratio |-> subratio,
                   wintitle |-> wintitle, window |-> 0]
        failed == [w EXCEPT !.calls = Append(@, call)]
        logged == [w EXCEPT !.calls = Append(@,
                      [call EXCEPT !.window = Len(w.windows) + 1])]
    IN  Each(GridHeight(ratio, scr), LAMBDA gridheight :
            IF gridheight.exc # "" THEN {Abort(failed, gridheight.exc)}
            ELSE
        Bind(GridWidth(IntOf(gridheight), scr), LAMBDA gridwidth :
            IF gridwidth.exc # "" THEN {Abort(failed, gridwidth.exc)}
            ELSE
        Bind(UseScrollers(IntOf(gridheight), scr), LAMBDA use_scrollers :
        Each(InsetWidth(subratio), LAMBDA inset_width :
            IF inset_width.exc # "" THEN {Abort(failed, inset_width.exc)}
            ELSE {Done(DrawCanvasGrid(logged, scr, IntOf(gridwidth),
                                      IntOf(gridheight), use_scrollers,
                                      wintitle, IntOf(inset_width),
                                      title_count))}))))
-----------------------------------------------------------------------------
(* save_canvas_to_png *)

\* str(cwin) + ".c.f.canvas"
CanvasPath(cwin) == cwin \o ".c.f.canvas"

\* cwin.nametowidget(str(cwin) + ".c.f.canvas"): tkinter splits the name at
\* its dots and walks down the children from the root until a component is
\* empty, and raises KeyError at a child that does not exist.  The path of
\* the root is ".", so that its name "..c.f.canvas" starts with an empty
\* component and the widget found is the root itself.
NameToWidget(ws, cwin) ==
    IF cwin = "." THEN [exc |-> "", path |-> "."]
    ELSE IF CanvasPath(cwin) \in DOMAIN ws
    THEN [exc |-> "", path |-> CanvasPath(cwin)]
    ELSE [exc |-> "KeyError", path |-> ""]

\* tkfd.asksaveasfilename returns "" or a path; a path is modelled by its
\* directory, its name and its extension
NoPath == [dir |-> "", name |-> "", ext |-> ""]
Path(dir, name, ext) == [dir |-> dir, name |-> name, ext |-> ext]

\* the directories of the file system in which no file can be made: one
\* that may not be written to, and one in which the system finds no entry
\* for a new name (the process file system)
ReadOnlyDirs == {"/sys/"}
NoEntryDirs == {"/proc/"}

\* the format PIL's Image.save finds for a file-name extension, "" when it
\* finds none
PilFormat(ext) ==
    CASE ext = ".png" -> "PNG"
      [] ext \in {".jpg", ".jpeg"} -> "JPEG"
      [] ext = ".bmp" -> "BMP"
      [] ext \in {".txt", ".dat", ""} -> ""

\* canvas.image.save(filepath): ValueError (unknown file extension) when
\* there is no format for the extension; else the file is opened with
\* open(filepath, "w+b"), which raises PermissionError in a read-only
\* directory and FileNotFoundError where there is no entry for the name,
\* and written
ImageSave(fs, image, filepath) ==
    IF PilFormat(filepath.ext) = "" THEN [exc |-> "ValueError", files |-> fs]
    ELSE IF filepath.dir \in ReadOnlyDirs
    THEN [exc |-> "PermissionError", files |-> fs]
    ELSE IF filepath.dir \in NoEntryDirs
    THEN [exc |-> "FileNotFoundError", files |-> fs]
    ELSE [exc |-> "",
          files |-> Append(fs, [path |-> filepath, image |-> image,
                                format |-> PilFormat(filepath.ext)])]

\* the progress window of lines 221-228: a Toplevel and its Progressbar
ProgressWindow(temp_tk) ==
    (temp_tk :> [class |-> "Toplevel", title |-> "Saving file...", bg |-> "",
                 resizable |-> TRUE, geometry |-> "+400+200", bind |-> {}]) @@
    (temp_tk \o ".!progressbar" :> [class |-> "Progressbar", value |-> 20])

\* temp_tk.destroy()
Destroy(ws, temp_tk) ==
    [p \in DOMAIN ws \ {temp_tk, temp_tk \o ".!progressbar"} |-> ws[p]]

\* A call that waits inside an event loop of Tk is a frame: the handler,
\* the place where it waits, and the lengths of warnings, windows, calls
\* and files when the call started, which the step that starts the call
\* fills in.  The frame of save_canvas_to_png also holds the window the
\* event went to, the canvas resolved, the dialog's answer, the progress
\* window and the files written so far.
Frame(op, pc) ==
    [op |-> op, pc |-> pc, cwin |-> "", filepath |-> NoPath, canvas |-> "",
     progress |-> "", written |-> <<>>,
     start |-> [w0 |-> 0, n0 |-> 0, c0 |-> 0, f0 |-> 0]]

SaveFrame(cwin, filepath, canvas, progress, pc) ==
    [Frame("save_canvas_to_png", pc) EXCEPT
        !.cwin = cwin, !.filepath = filepath, !.canvas = canvas,
        !.progress = progress]

\* lines 216-218 of save_canvas_to_png(evt), for evt.widget = evt[1] (evt
\* is <<>> for None), up to the save dialog: whether the call has ended
\* and with which exception, and its frame
SaveBegin(ws, evt) ==
    LET found == NameToWidget(ws, evt[1])
    IN  IF evt = <<>>
        THEN [ended |-> TRUE, raised |-> "AttributeError",
              frame |-> SaveFrame("", NoPath, "", "", "")]
        ELSE IF found.exc # ""
        THEN [ended |-> TRUE, raised |-> found.exc,
              frame |-> SaveFrame(evt[1], NoPath, "", "", "")]
        ELSE [ended |-> FALSE, raised |-> "",
              frame |-> SaveFrame(evt[1], NoPath, found.path, "", "line 218")]

\* lines 218-229, when the dialog has answered filepath: the widgets and
\* the Toplevel count the call leaves, whether it has ended, and its frame
SaveAnswered(ws, ids, frame, filepath) ==
    LET temp_tk == ToplevelPath(ids + 1)
    IN  IF filepath = NoPath
        THEN [widgets |-> ws, child_ids |-> ids, ended |-> TRUE,
              raised |-> "", frame |-> [frame EXCEPT !.pc = ""]]
        ELSE [widgets |-> ProgressWindow(temp_tk) @@ ws,
              child_ids |-> ids + 1, ended |-> FALSE, raised |-> "",
              frame |-> [frame EXCEPT !.filepath = filepath,
                                      !.progress = temp_tk,
                                      !.pc = "line 229"]]

\* lines 230-231, when the root.update() of line 229 has returned: the
\* root widget has no attribute image (AttributeError)
SaveWrite(ws, fs, frame) ==
    LET out == ImageSave(fs, ws[frame.canvas].image, frame.filepath)
        pb  == frame.progress \o ".!progressbar"
        same == [widgets |-> ws, files |-> fs, ended |-> TRUE,
                 raised |-> "", frame |-> frame]
    IN  IF frame.canvas = "." THEN [same EXCEPT !.raised = "AttributeError"]
        ELSE IF out.exc # "" THEN [same EXCEPT !.raised = out.exc]
        ELSE [widgets |-> [ws EXCEPT ![pb].value = @ + 60],
              files |-> out.files, ended |-> FALSE, raised |-> "",
              frame |-> [frame EXCEPT
                            !.written = Append(@, out.files[Len(out.files)]),
                            !.pc = "line 232"]]

\* line 233, when the root.update() of line 232 has returned
SaveEnd(ws, frame) == Destroy(ws, frame.progress)

-----------------------------------------------------------------------------
(* create_spatial_visualizations *)

\* house_area in square metres (lines 244-248)
HouseArea(f) ==
    Bind(PyFloat(f.entry_HA).v, LAMBDA house_area :
        CASE f.ha_unit = "sq. feet" ->
                FloatMul(house_area, Decimal(FALSE, 92903, -6))
          [] f.ha_unit = "sq. yards" ->
                FloatMul(house_area, Decimal(FALSE, 836127, -6))
          [] f.ha_unit = "sq. meters" -> house_area)

\* city_area in square metres (lines 250-254)
CityArea(f) ==
    Bind(PyFloat(f.entry_CA).v, LAMBDA city_area :
        IF f.ca_unit = "sq. miles"
        THEN FloatMul(FloatMul(city_area, Decimal(FALSE, 258999, -5)),
                      IntVal(1000000))
        ELSE FloatMul(city_area, IntVal(1000000)))

\* km2 * 1000000, a Python int, as the float that dividing it by a float
\* makes of it
SquareMetres(km2) ==
    Double(1, BMul(BFromInt(km2), BFromInt(1000000)), 0, FALSE)

\* country_area = country_areas[combobox_COUNTRY.get()] * 1000000
CountryArea(f) == SquareMetres(country_areas[f.combobox_COUNTRY])

\* world_area = 510072000 * 1000000
WorldArea == SquareMetres(WORLD_AREA_KM2)

\* a mutant of the three ratios: numerator and denominator exchanged
AreaRatioSwapped(a, b) == PyRoundDiv(b, a)

\* h_to_c_ratio, c_to_w_ratio and c_to_c_ratio are each round(a / b)
AreaRatio(a, b) == PyRoundDiv(a, b)

\* create_spatial_visualizations(), lines 244-266: float() of an entry
\* that is no number raises ValueError (lines 244 and 250), the table has
\* no area for a name that is not a country's (KeyError, line 255), and a
\* ratio that cannot be worked out ends the function where it stands.
\* The outcomes it may have, with those of the two grids
CreateSpatialVisualizations(w, f, scr) ==
    IF f.entry_HA.kind = "text" \/ f.entry_CA.kind = "text"
    THEN {Abort(w, "ValueError")}
    ELSE IF f.combobox_COUNTRY \notin DOMAIN country_areas
    THEN {Abort(w, "KeyError")}
    ELSE
    Bind(HouseArea(f), LAMBDA house_area :
    Bind(CityArea(f), LAMBDA city_area :
    Bind(AreaRatio(city_area, house_area), LAMBDA h_to_c :
        IF h_to_c.exc # "" THEN {Abort(w, h_to_c.exc)}
        ELSE
    Each(CreateRatioVisualization(w, scr, IntOf(h_to_c),
             "Your House in Your City", <<>>, <<>>), LAMBDA o1 :
        IF o1.raised # "" THEN {o1}
        ELSE
    Bind(AreaRatio(WorldArea, city_area), LAMBDA c_to_w :
        IF c_to_w.exc # "" THEN {Abort(o1.world, c_to_w.exc)}
        ELSE
    Bind(AreaRatio(CountryArea(f), city_area), LAMBDA c_to_c :
        IF c_to_c.exc # "" THEN {Abort(o1.world, c_to_c.exc)}
        ELSE
    Each(CreateRatioVisualization(o1.world, scr, IntOf(c_to_w),
             "Your City in Your Country and the World",
             <<IntOf(c_to_c)>>, <<>>), LAMBDA o2 :
        IF o2.raised # "" THEN {o2}
        ELSE {Done(DrawEarthSunDiagram(o2.world, scr))})))))))

\* error_msg of validate_form_and_create_spatial_visualizations
ErrorMsg(f) ==
    Bind(PyFloat(f.entry_HA), LAMBDA float1 :
    Bind(PyFloat(f.entry_CA), LAMBDA float2 :
        IF float1.exc # "" \/ float2.exc # ""
        THEN "Please enter numeric area values"
        ELSE IF FloatLeqZero(float1.v) \/ FloatLeqZero(float2.v)
        THEN "Please enter positive area values"
        ELSE IF f.combobox_COUNTRY \notin countries_list
        THEN "Please select a country-name from the dropdown list"
        ELSE ""))
-----------------------------------------------------------------------------
(* The state after construction *)

Screen(w, h) == [width |-> w, height |-> h]

\* the record of the call that ended last: the exception that ended it,
\* the lengths of warnings, windows, calls and files when it started, the
\* warnings it showed itself, the lengths of windows and calls when it
\* went on after its last wait (n1, c1) and when it ended (n2, c2); for a
\* call of create_population_visualizations the boxes as it read them in
\* line 298 and in lines 301 and 304; for a call of save_canvas_to_png its
\* frame; for a function applied on its own, its arguments and result
NoRun ==
    [op |-> "none", raised |-> "", w0 |-> 0, n0 |-> 0, c0 |-> 0, f0 |-> 0,
     shown |-> 0, n1 |-> 0, c1 |-> 0, n2 |-> 0, c2 |-> 0, boxes |-> <<>>,
     frame |-> SaveFrame("", NoPath, "", "", ""),
     args |-> <<>>, result |-> 0]

\* the lengths when a call starts
Started ==
    [w0 |-> Len(warnings), n0 |-> Len(windows), c0 |-> Len(calls),
     f0 |-> Len(files)]

\* the record of a call that started with the lengths start, showed shown
\* warnings, and ends in this step leaving the world w
HandlerRun(op, raised, start, shown, w) ==
    [NoRun EXCEPT !.op = op, !.raised = raised, !.w0 = start.w0,
                  !.n0 = start.n0, !.c0 = start.c0, !.f0 = start.f0,
                  !.shown = shown,
                  !.n1 = Len(windows), !.c1 = Len(calls),
                  !.n2 = Len(w.windows), !.c2 = Len(w.calls)]

\* the form as the main window shows it first: empty entries, the default
\* units, no country, both boxes unchecked (lines 332-360)
DefaultForm ==
    [entry_HA |-> TextEntry(""), entry_CA |-> TextEntry(""),
     ha_unit |-> "sq. yards", ca_unit |-> "sq. kms",
     combobox_COUNTRY |-> "", show_births |-> FALSE, show_deaths |-> FALSE]

InitApp(screens, forms) ==
    /\ screen \in screens
    /\ form \in forms
    /\ widgets = <<>>
    /\ windows = <<>>
    /\ child_ids = 0
    /\ warnings = <<>>
    /\ calls = <<>>
    /\ files = <<>>
    /\ waiting = <<>>
    /\ events = 0
    /\ run = NoRun

TheWorld == World(widgets, windows, child_ids, calls)

SetWorld(w) ==
    /\ widgets' = w.widgets
    /\ windows' = w.windows
    /\ child_ids' = w.child_ids
    /\ calls' = w.calls

-----------------------------------------------------------------------------------------------------------------------------------------------------
(* The handlers of the main window *)

\* the event loop delivers one more event to its handler: a call starts
Delivered ==
    /\ events < MaxEvents
    /\ events' = events + 1

\* the innermost call that waits, and the calls around it
TopFrame == waiting[Len(waiting)]
OuterFrames == SubSeq(waiting, 1, Len(waiting) - 1)

\* the call that waits at pc is the innermost one: its wait can return
Returns(pc) == waiting # <<>> /\ TopFrame.pc = pc

\* lines 286-289: with an error message nothing is created
SpatialOutcome(f, w, scr) ==
    IF ErrorMsg(f) # "" THEN {Done(w)}
    ELSE CreateSpatialVisualizations(w, f, scr)

\* the Visualize button of the Spatial pane: lines 276-289; with an error
\* message the call waits in the warning of line 287
ValidateFormAndCreateSpatialVisualizations ==
    \/ /\ Delivered
       /\ ErrorMsg(form) # ""
       /\ warnings' = Append(warnings, <<"Invalid Input", ErrorMsg(form)>>)
       /\ waiting' = Append(waiting, [Frame("validate", "line 287")
                                         EXCEPT !.start = Started])
       /\ UNCHANGED <<screen, form, widgets, windows, child_ids, calls,
                      files, run>>
    \/ /\ Delivered
       /\ ErrorMsg(form) = ""
       /\ \E out \in SpatialOutcome(form, TheWorld, screen) :
             /\ SetWorld(out.world)
             /\ run' = HandlerRun("validate", out.raised, Started, 0,
                                  out.world)
       /\ UNCHANGED <<screen, form, warnings, files, waiting>>

\* the warning of line 287 is closed: the call ends
ValidateWarningClosed ==
    /\ Returns("line 287")
    /\ waiting' = OuterFrames
    /\ run' = HandlerRun("validate", "", TopFrame.start, 1, TheWorld)
    /\ UNCHANGED <<screen, form, widgets, windows, child_ids, warnings,
                   calls, files, events>>

\* a mutant: the hourly count rounded instead of truncated
HourlyRounded(daily) == IntOf(PyRoundDiv(IntVal(daily), IntVal(24)))

\* DAILY_BIRTHS//24 and DAILY_DEATHS//24
Hourly(daily) == daily \div 24

\* lines 301-306
PopulationOutcome(f, w, scr) ==
    Each(IF f.show_births
         THEN CreateRatioVisualization(w, scr, DAILY_BIRTHS,
                  "Births per day (and hr)", <<Hourly(DAILY_BIRTHS)>>,
                  <<" ~ " \o ToString(DAILY_BIRTHS)>>)
         ELSE {Done(w)}, LAMBDA o1 :
        IF o1.raised = "" /\ f.show_deaths
        THEN CreateRatioVisualization(o1.world, scr, DAILY_DEATHS,
                 "Deaths per day (and hr)", <<Hourly(DAILY_DEATHS)>>,
                 <<" ~ " \o ToString(DAILY_DEATHS)>>)
        ELSE {o1})

\* the boxes that are checked
Checked(f) ==
    (IF f.show_births THEN 1 ELSE 0) + (IF f.show_deaths THEN 1 ELSE 0)

\* the boxes as a call reads them
Boxes(f) == <<f.show_births, f.show_deaths>>

\* the Visualize button of the Population pane: lines 298-306; with
\* neither box checked the call waits in the warning of lines 299-300
CreatePopulationVisualizations ==
    \/ /\ Delivered
       /\ Checked(form) = 0
       /\ warnings' = Append(warnings, <<"Invalid Selection",
                         "Please select at least one visualization checkbox">>)
       /\ waiting' = Append(waiting, [Frame("population", "line 299")
                                         EXCEPT !.start = Started])
       /\ UNCHANGED <<screen, form, widgets, windows, child_ids, calls,
                      files, run>>
    \/ /\ Delivered
       /\ Checked(form) > 0
       /\ \E out \in PopulationOutcome(form, TheWorld, screen) :
             /\ SetWorld(out.world)
             /\ run' = [HandlerRun("population", out.raised, Started, 0,
                                   out.world)
                           EXCEPT !.boxes = Boxes(form) \o Boxes(form)]
       /\ UNCHANGED <<screen, form, warnings, files, waiting>>

\* the warning of lines 299-300 is closed: lines 301-306, which read the
\* boxes again
PopulationWarningClosed ==
    /\ Returns("line 299")
    /\ \E out \in PopulationOutcome(form, TheWorld, screen) :
          /\ SetWorld(out.world)
          /\ run' = [HandlerRun("population", out.raised, TopFrame.start, 1,
                                out.world)
                        EXCEPT !.boxes = <<FALSE, FALSE>> \o Boxes(form)]
    /\ waiting' = OuterFrames
    /\ UNCHANGED <<screen, form, warnings, files, events>>

\* a click on a Checkbutton of the Population pane (lines 332-336) flips
\* its variable
ClickCheckbutton ==
    /\ Delivered
    /\ \E box \in {"show_births", "show_deaths"} :
          form' = [form EXCEPT ![box] = ~@]
    /\ UNCHANGED <<screen, widgets, windows, child_ids, warnings, calls,
                   files, waiting, run>>
-----------------------------------------------------------------------------
(* Control-s: every window the two drawing routines open binds the event   *)
(* to save_canvas_to_png (lines 135 and 191), so that the event loop runs  *)
(* the handler for any window at any time, also while a call waits         *)

\* the answers of the save dialog: cancelled, a .png name, a .txt name, a
\* .png name in a directory that is read-only, and one in the process file
\* system
DialogAnswers ==
    {NoPath, Path("/home/", "grid", ".png"), Path("/home/", "grid", ".txt"),
     Path("/sys/", "grid", ".png"), Path("/proc/", "grid", ".png")}

\* the record of a call of save_canvas_to_png that has ended
SaveRun(raised, frame) ==
    [HandlerRun("save_canvas_to_png", raised, frame.start, 0, TheWorld)
        EXCEPT !.frame = frame]

\* the answers the dialog gives in the application at large: cancelled, a
\* name that is saved and a name that is not
AppAnswers ==
    {NoPath, Path("/home/", "grid", ".png"), Path("/home/", "grid", ".txt")}

\* a Control-s event delivered to the i-th window, from the main loop or
\* from inside a wait: lines 216-218, up to the save dialog
ControlS ==
    /\ Delivered
    /\ \E i \in 1..Len(windows) :
         \E out \in {SaveBegin(widgets, <<windows[i].path>>)} :
            \E frame \in {[out.frame EXCEPT !.start = Started]} :
               /\ waiting' = IF out.ended THEN waiting
                             ELSE Append(waiting, frame)
               /\ run' = IF out.ended THEN SaveRun(out.raised, frame)
                         ELSE run
    /\ UNCHANGED <<screen, form, widgets, windows, child_ids, warnings,
                   calls, files>>

\* the save dialog of the innermost call gives one of answers: lines
\* 218-229
ControlSAnswered(answers) ==
    /\ Returns("line 218")
    /\ \E filepath \in answers :
         /\ \E out \in {SaveAnswered(widgets, child_ids, TopFrame, filepath)} :
               /\ widgets' = out.widgets
               /\ child_ids' = out.child_ids
               /\ waiting' = IF out.ended THEN OuterFrames
                             ELSE Append(OuterFrames, out.frame)
               /\ run' = IF out.ended THEN SaveRun(out.raised, out.frame)
                         ELSE run
    /\ UNCHANGED <<screen, form, windows, warnings, calls, files, events>>

\* the root.update() of line 229 returns to the innermost call: lines
\* 230-232
ControlSWrite ==
    /\ Returns("line 229")
    /\ \E out \in {SaveWrite(widgets, files, TopFrame)} :
          /\ widgets' = out.widgets
          /\ files' = out.files
          /\ waiting' = IF out.ended THEN OuterFrames
                        ELSE Append(OuterFrames, out.frame)
          /\ run' = IF out.ended THEN SaveRun(out.raised, out.frame)
                    ELSE run
    /\ UNCHANGED <<screen, form, windows, child_ids, warnings, calls, events>>

\* the root.update() of line 232 returns to the innermost call: line 233
ControlSEnd ==
    /\ Returns("line 232")
    /\ widgets' = SaveEnd(widgets, TopFrame)
    /\ waiting' = OuterFrames
    /\ run' = SaveRun("", TopFrame)
    /\ UNCHANGED <<screen, form, windows, child_ids, warnings, calls, files,
                   events>>

-----------------------------------------------------------------------------
(* The application: one screen, one filled-in form, and the event loop     *)
(* delivering clicks on the two Visualize buttons and the two checkboxes   *)
(* and Control-s on the windows opened, in any order, also while a call    *)
(* waits in a warning, in the save dialog or in root.update()              *)

\* screens of the application: landscape, 4:3, three monitors side by side,
\* a monitor turned to portrait, and sixteen monitors side by side
AppScreens ==
    {Screen(1920, 1080), Screen(800, 600), Screen(5760, 1080),
     Screen(1080, 1920), Screen(30720, 1080)}

\* contents of the house-area entry: abc, nan, -5, 2000, 281.6, 1e-323
HouseEntries ==
    {TextEntry("abc"), WordEntry("nan"), NumEntry(TRUE, 5, 0),
     NumEntry(FALSE, 2000, 0), NumEntry(FALSE, 2816, -1),
     NumEntry(FALSE, 1, -323)}

\* contents of the city-area entry: empty, inf, 0, 500, 33, 1e-310, 1e303
CityEntries ==
    {TextEntry(""), WordEntry("inf"), NumEntry(FALSE, 0, 0),
     NumEntry(FALSE, 500, 0), NumEntry(FALSE, 33, 0),
     NumEntry(FALSE, 1, -310), NumEntry(FALSE, 1, 303)}

\* contents of the country box; Atlantis is no key of the table
CountryEntries == {"Russia", "Monaco", "Atlantis"}

\* the largest ratio whose grid the model draws
MaxModelRatio == 30000000

\* a ratio the model goes on with: round() raises, or the ratio is at most
\* MaxModelRatio
RatioInRange(a, b) ==
    Bind(AreaRatio(a, b), LAMBDA r :
        r.exc # "" \/ (r.fits /\ r.v <= MaxModelRatio))

FormInRange(f) ==
    ErrorMsg(f) = "" =>
        Bind(CityArea(f), LAMBDA city_area :
            /\ RatioInRange(city_area, HouseArea(f))
            /\ RatioInRange(WorldArea, city_area)
            /\ RatioInRange(CountryArea(f), city_area))

\* a house of 2000 sq. feet in a city of 500 sq. kms of Russia, and the
\* Population pane as the main window shows it first
FilledForm ==
    [entry_HA |-> NumEntry(FALSE, 2000, 0), entry_CA |-> NumEntry(FALSE, 500, 0),
     ha_unit |-> "sq. feet", ca_unit |-> "sq. kms",
     combobox_COUNTRY |-> "Russia",
     show_births |-> FALSE, show_deaths |-> FALSE]

\* FilledForm with the house area filled in any way
HouseForms ==
    {[FilledForm EXCEPT !.entry_HA = e, !.ha_unit = u] :
        e \in HouseEntries, u \in {"sq. feet", "sq. yards", "sq. meters"}}

\* FilledForm with the city area and the country filled in any way
CityForms ==
    {[FilledForm EXCEPT !.entry_CA = e, !.ca_unit = u, !.combobox_COUNTRY = c] :
        e \in CityEntries, u \in {"sq. kms", "sq. miles"}, c \in CountryEntries}

\* FilledForm with the boxes of the Population pane checked in any way
PopulationForms ==
    {[FilledForm EXCEPT !.show_births = b, !.show_deaths = d] :
        b, d \in BOOLEAN}

\* a house area that is no number, with the boxes checked in any way
InvalidForms ==
    {[f EXCEPT !.entry_HA = TextEntry("abc")] : f \in PopulationForms}

Forms ==
    {f \in HouseForms \cup CityForms \cup PopulationForms \cup InvalidForms :
        FormInRange(f)}

\* every form on the usual screen, and the valid form on every screen
Init ==
    \/ InitApp({Screen(1920, 1080)}, Forms)
    \/ InitApp(AppScreens, PopulationForms)

Next ==
    \/ ValidateFormAndCreateSpatialVisualizations
    \/ ValidateWarningClosed
    \/ CreatePopulationVisualizations
    \/ PopulationWarningClosed
    \/ ClickCheckbutton
    \/ ControlS
    \/ ControlSAnswered(AppAnswers)
    \/ ControlSWrite
    \/ ControlSEnd

Spec == Init /\ [][Next]_vars

-----------------------------------------------------------------------------
(* create_ratio_visualization on its own: any ratio, any screen *)

\* the sides of the screens of SpecGrid, in pixels
ScreenSides == {3, 5, 7, 10, 15, 36}

GridScreens == {Screen(w, h) : w, h \in ScreenSides}

\* the subratios SpecGrid passes: None, 0 and the ratio itself
Subratios(ratio) == {<<>>, <<0>>, <<ratio>>}

InitGrid == InitApp(GridScreens, {DefaultForm})

CreateRatioVisualizationCall ==
    /\ windows = <<>>
    /\ \E ratio \in 0..MaxRatio :
         \E subratio \in Subratios(ratio) :
            \E out \in CreateRatioVisualization(TheWorld, screen, ratio,
                                                 "Ratio", subratio, <<>>) :
                /\ SetWorld(out.world)
                /\ run' = [HandlerRun("create_ratio_visualization", out.raised,
                                      Started, 0, out.world)
                              EXCEPT !.args = <<ratio, subratio>>]
    /\ UNCHANGED <<screen, form, warnings, files, waiting, events>>

NextGrid == CreateRatioVisualizationCall

SpecGrid == InitGrid /\ [][NextGrid]_vars

-----------------------------------------------------------------------------
(* The area ratio on its own *)

InitRatio == InitApp({Screen(1920, 1080)}, {DefaultForm})

AreaRatioCall ==
    /\ \E a, b \in 1..MaxArea :
         run' = [HandlerRun("area_ratio", "", Started, 0, TheWorld)
                    EXCEPT !.args = <<a, b>>,
                           !.result = IntOf(AreaRatio(IntVal(a), IntVal(b)))]
    /\ UNCHANGED <<screen, widgets, windows, child_ids, warnings, calls,
                   files, form, waiting, events>>

NextRatio == AreaRatioCall

SpecRatio == InitRatio /\ [][NextRatio]_vars

-----------------------------------------------------------------------------
(* draw_canvas_grid on its own: one small grid *)

InitDraw == InitApp({Screen(1920, 1080)}, {DefaultForm})

DrawCanvasGridCall ==
    /\ windows = <<>>
    /\ \E width, height \in 1..MaxSide, use_scrollers \in BOOLEAN :
         \E inset_width \in 0..Min(width, height) :
            \E w \in {DrawCanvasGrid(TheWorld, screen, width, height,
                                     use_scrollers, "Grid", inset_width, <<>>)} :
               /\ SetWorld(w)
               /\ run' = [HandlerRun("draw_canvas_grid", "", Started, 0, w)
                             EXCEPT !.args = <<width, height, inset_width>>]
    /\ UNCHANGED <<screen, form, warnings, files, waiting, events>>

NextDraw == DrawCanvasGridCall

SpecDraw == InitDraw /\ [][NextDraw]_vars

-----------------------------------------------------------------------------
(* Windows and Control-s: any windows, and Control-s events at any time,   *)
(* also while a save waits in its dialog or in root.update()               *)

\* the grids SpecWindows draws: <<width, height, inset_width>>
SavedGrids == {<<2, 2, 0>>, <<3, 2, 1>>}

InitWindows == InitApp({Screen(1920, 1080)}, {DefaultForm})

OpenGridWindow ==
    /\ Delivered
    /\ \E g \in SavedGrids :
         \E w \in {DrawCanvasGrid(TheWorld, screen, g[1], g[2],
                                  UseScrollers(g[2], screen), "Grid", g[3], <<>>)} :
            /\ SetWorld(w)
            /\ run' = HandlerRun("draw_canvas_grid", "", Started, 0, w)
    /\ UNCHANGED <<screen, form, warnings, files, waiting>>

OpenEarthSunDiagram ==
    /\ Delivered
    /\ \E w \in {DrawEarthSunDiagram(TheWorld, screen)} :
          /\ SetWorld(w)
          /\ run' = HandlerRun("draw_earth_sun_diagram", "", Started, 0, w)
    /\ UNCHANGED <<screen, form, warnings, files, waiting>>

NextWindows ==
    \/ OpenGridWindow
    \/ OpenEarthSunDiagram
    \/ ControlS
    \/ ControlSAnswered(DialogAnswers)
    \/ ControlSWrite
    \/ ControlSEnd

SpecWindows == InitWindows /\ [][NextWindows]_vars

-----------------------------------------------------------------------------
(* What the properties read off the state *)

\* warnings shown, windows opened and calls made by the call that ended
\* last, itself
NewWarnings == run.shown
NewWindows == run.n2 - run.n1
NewCalls == run.c2 - run.c1

\* of the k-th window: its inner canvas, the grid drawn, the inset side
\* handed to draw_canvas_grid, and whether it has scrollbars
CanvasOf(k) == widgets[windows[k].path \o ".c.f.canvas"]
GridWidthOf(k) == windows[k].image.size[1]
GridHeightOf(k) == windows[k].image.size[2]
InsetOf(k) ==
    IF Len(CanvasOf(k).img.puts) = 2
    THEN CanvasOf(k).img.puts[2].to[3] \div 2 ELSE 0
HasScrollbars(k) == (windows[k].path \o ".!scrollbar") \in DOMAIN widgets

SpatialTitles ==
    {"Your House in Your City", "Your City in Your Country and the World"}
PopulationTitles == {"Births per day (and hr)", "Deaths per day (and hr)"}

-----------------------------------------------------------------------------
(* C1 *)

\* the form as the claim sorts it: a field float() rejects, an area <= 0,
\* or a country that is no key of the table
C1_InvalidInput ==
    \/ PyFloat(form.entry_HA).exc # ""
    \/ PyFloat(form.entry_CA).exc # ""
    \/ FloatLeqZero(PyFloat(form.entry_HA).v)
    \/ FloatLeqZero(PyFloat(form.entry_CA).v)
    \/ form.combobox_COUNTRY \notin DOMAIN country_areas

\* C1: a run of validate_form_and_create_spatial_visualizations ends either
\* with exactly one warning and no window (invalid input), or with no
\* warning and the three windows in the order house grid, city grid,
\* Earth/Sun diagram (valid input); never with a warning and a window, and
\* never with only some of the windows.
C1_WarningOrAllThreeWindows ==
    run.op = "validate" =>
        \/ /\ C1_InvalidInput
           /\ NewWarnings = 1
           /\ NewWindows = 0
        \/ /\ ~C1_InvalidInput
           /\ NewWarnings = 0
           /\ NewWindows = 3
           /\ NewCalls = 2
           /\ calls[run.c1 + 1].wintitle = "Your House in Your City"
           /\ calls[run.c1 + 1].window = run.n1 + 1
           /\ calls[run.c1 + 2].wintitle = "Your City in Your Country and the World"
           /\ calls[run.c1 + 2].window = run.n1 + 2
           /\ windows[run.n1 + 3].image.source = "white"

-----------------------------------------------------------------------------
(* C2 *)

\* C2: every ratio and subratio create_spatial_visualizations hands to
\* create_ratio_visualization is a positive integer (>= 1).
C2_SpatialRatiosPositive ==
    \A i \in 1..Len(calls) :
        calls[i].wintitle \in SpatialTitles =>
            /\ calls[i].ratio >= 1
            /\ calls[i].subratio # <<>> => calls[i].subratio[1] >= 1

-----------------------------------------------------------------------------
(* C3 *)

\* C3: for every ratio >= 1 and every screen, the grid of
\* create_ratio_visualization has gridwidth >= 1 and gridheight >= 1.
C3_GridAtLeastOneCell ==
    (run.op = "create_ratio_visualization" /\ run.args[1] >= 1) =>
        /\ GridWidthOf(Len(windows)) >= 1
        /\ GridHeightOf(Len(windows)) >= 1

-----------------------------------------------------------------------------
(* C4 *)

\* C4: at both call sites that pass a subratio, whenever subratio <= ratio
\* the inset side handed to draw_canvas_grid is at most min(gridwidth,
\* gridheight) of the grid computed for ratio.
C4_InsetInsideGrid ==
    \A i \in 1..Len(calls) :
        (calls[i].subratio # <<>> /\ calls[i].subratio[1] <= calls[i].ratio) =>
            InsetOf(calls[i].window)
                <= Min(GridWidthOf(calls[i].window), GridHeightOf(calls[i].window))

-----------------------------------------------------------------------------
(* C5 *)

\* the calls the claim expects for the two checkboxes, births first
C5_Expected(births, deaths) ==
    (IF births THEN << <<385000, 16041>> >> ELSE <<>>) \o
    (IF deaths THEN << <<165000, 6875>> >> ELSE <<>>)

\* the windows a run of create_population_visualizations opened are those
\* of exp, in that order
C5_Opened(exp) ==
    /\ NewWindows = Len(exp)
    /\ NewCalls = Len(exp)
    /\ \A k \in 1..Len(exp) :
          /\ calls[run.c1 + k].ratio = exp[k][1]
          /\ calls[run.c1 + k].subratio = <<exp[k][2]>>
          /\ calls[run.c1 + k].window = run.n1 + k

-----------------------------------------------------------------------------
(* C6 *)

\* round(a / b) for the areas a and b
C6_Ratio(a, b) == IntOf(AreaRatio(IntVal(a), IntVal(b)))

\* C6 as the spec states it: round(a / b) is strictly decreasing in b for
\* fixed a and non-decreasing in a for fixed b.
C6_StrictlyDecreasingInB ==
    run.op = "area_ratio" =>
        LET a == run.args[1]
            b == run.args[2]
        IN  /\ \A b2 \in 1..MaxArea : b < b2 => run.result > C6_Ratio(a, b2)
            /\ \A a2 \in 1..MaxArea : a <= a2 => run.result <= C6_Ratio(a2, b)

\* C6 as amended: round(a / b) is non-increasing in b for fixed a (b1 < b2
\* implies ratio(a, b1) >= ratio(a, b2)) and non-decreasing in a for fixed b.
C6_NonIncreasingInB ==
    run.op = "area_ratio" =>
        LET a == run.args[1]
            b == run.args[2]
        IN  /\ \A b2 \in 1..MaxArea : b < b2 => run.result >= C6_Ratio(a, b2)
            /\ \A a2 \in 1..MaxArea : a <= a2 => run.result <= C6_Ratio(a2, b)

\* a ratio that a larger b makes smaller and a larger a makes larger
C6_Witness ==
    /\ run.op = "area_ratio"
    /\ run.args = <<7, 2>>
    /\ run.result = 4
    /\ C6_Ratio(7, 3) < run.result
    /\ C6_Ratio(8, 2) >= run.result

-----------------------------------------------------------------------------
(* C7 *)

\* C7: for ratio 385000 on a 1920x1080 screen the grid is 465 high and 827
\* wide, and the subratio passed with it is 16041.
C7_BirthsGridOn1920x1080 ==
    screen = Screen(1920, 1080) =>
        \A i \in 1..Len(calls) :
            calls[i].ratio = 385000 =>
                /\ GridHeightOf(calls[i].window) = 465
                /\ GridWidthOf(calls[i].window) = 827
                /\ calls[i].subratio = <<16041>>

\* the births window has been opened on a 1920x1080 screen
C7_Witness ==
    /\ screen = Screen(1920, 1080)
    /\ \E i \in 1..Len(calls) :
          /\ calls[i].ratio = 385000
          /\ calls[i].wintitle = "Births per day (and hr)"
          /\ CanvasOf(calls[i].window).width = 2 * 827

-----------------------------------------------------------------------------
(* C8 *)

\* C8: the in-memory image of draw_canvas_grid shows the picture on the
\* screen: the colour of each pixel (x, y) of the PIL image is the colour
\* of the 2x2 block of cell (x, y) of the displayed grid, which the canvas
\* shows from canvas coordinates (2, 2) on.
C8_MemoryImageIsDisplayedGrid ==
    run.op = "draw_canvas_grid" =>
        LET k == Len(windows)
        IN  \A x \in 0..(run.args[1] - 1), y \in 0..(run.args[2] - 1) :
                \A dx, dy \in 0..1 :
                    DisplayedPixel(CanvasOf(k), 2 + 2 * x + dx, 2 + 2 * y + dy)
                        = PilPixel(windows[k].image, x, y)

-----------------------------------------------------------------------------
(* C9 *)

\* C9: a grid window opened through create_ratio_visualization has
\* scrollbars only if the displayed grid's pixel height, 2 x gridheight,
\* is greater than 0.86 of the screen height.
C9_ScrollbarsOnlyOnOverflow ==
    \A i \in 1..Len(calls) :
        HasScrollbars(calls[i].window) =>
            100 * (2 * GridHeightOf(calls[i].window)) > 86 * screen.height

\* a grid window that has scrollbars, drawn for a ratio of at least 1
C9_Witness ==
    \E i \in 1..Len(calls) :
        /\ HasScrollbars(calls[i].window)
        /\ calls[i].ratio >= 1
        /\ CanvasOf(calls[i].window).height = 2 * GridHeightOf(calls[i].window)

-----------------------------------------------------------------------------
(* C10 *)

\* C10: a Control-s event delivered to a window resolves that window's own
\* canvas at <window>.c.f.canvas, which carries the image drawn for that
\* window; on an empty path nothing is written and no progress window is
\* created, otherwise that image is written exactly once to the chosen
\* path and the progress window is destroyed afterwards.
C10_ControlSSavesOwnImage ==
    run.op = "save_canvas_to_png" =>
        \E k \in 1..Len(windows) :
            /\ windows[k].path = run.frame.cwin
            /\ run.frame.canvas = windows[k].path \o ".c.f.canvas"
            /\ run.frame.canvas \in DOMAIN widgets
            /\ widgets[run.frame.canvas].image = windows[k].image
            /\ IF run.frame.filepath = NoPath
               THEN /\ run.frame.written = <<>>
                    /\ run.frame.progress = ""
               ELSE /\ Len(run.frame.written) = 1
                    /\ run.frame.written[1].path = run.frame.filepath
                    /\ run.frame.written[1].image = windows[k].image
                    /\ run.frame.progress # ""
                    /\ run.frame.progress \notin DOMAIN widgets

-----------------------------------------------------------------------------
(* C11 *)

\* C11: on a screen of at least 10 x 10 pixels, a grid window that
\* create_ratio_visualization opens for a ratio >= 1 without scrollbars is
\* not resizable and its canvas of 2 x gridwidth by 2 x gridheight pixels
\* fits on the screen: 2 x gridheight <= screen height and 2 x gridwidth
\* <= screen width.
C11_GridWithoutScrollbarsFits ==
    (/\ run.op = "create_ratio_visualization"
     /\ run.args[1] >= 1
     /\ screen.width >= 10 /\ screen.height >= 10
     /\ ~HasScrollbars(Len(windows))) =>
        LET k == Len(windows)
        IN  /\ 100 * GridHeightOf(k) <= 45 * screen.height
            /\ widgets[windows[k].path].resizable = FALSE
            /\ CanvasOf(k).width = 2 * GridWidthOf(k)
            /\ CanvasOf(k).height = 2 * GridHeightOf(k)
            /\ CanvasOf(k).height <= screen.height
            /\ CanvasOf(k).width <= screen.width

\* a window without scrollbars whose grid is as high as it may be without
\* them (gridheight 4 on a screen 10 pixels high), on a wider screen
C11_Witness ==
    /\ run.op = "create_ratio_visualization"
    /\ run.args[1] >= 1
    /\ screen = Screen(15, 10)
    /\ ~HasScrollbars(Len(windows))
    /\ GridHeightOf(Len(windows)) = 4
    /\ GridWidthOf(Len(windows)) = 6

====
